---- MODULE Spec2Model ----
(***************************************************************************)
(* Model of loader.py: the contact loader and filter of the hospital       *)
(* simulation.  One run of the script is a straight line of statements:    *)
(* open the file contact_list, parse it as JSON and slice off the first    *)
(* and the last element, build the dict metWithInfected, scan the contacts *)
(* once per infected identifier, print the dict.  A run is modelled one    *)
(* statement (or one iteration of the inner loop) per step.  Several runs  *)
(* of the script may be started on the same file content.                  *)
(***************************************************************************)
EXTENDS Integers, Sequences, FiniteSets

\* ---------------------------------------------------------------- bounds
\* longest parsed JSON array, for the specifications of one run
MaxLen == 4
\* longest parsed JSON array, for the specification with two runs
MaxLenPair == 3

\* ------------------------------------------------------------- constants
\* loader.py:3-4, the list infected
infected == << "64c0a6f2-9900-44d7-ac44-17d8b3e388e0",
               "1a57a4a3-0815-48a2-98be-00375fa5bda8" >>

\* the values a field agent_1 takes in the modelled inputs: the infected
\* identifiers and one identifier that is not infected
Agent1Values == { infected[1], infected[2], "SENTINEL" }
\* the values a field agent_2 takes in the modelled inputs
Agent2Values == { "X", "Y" }

\* a JSON object of the array: agent_1 and agent_2 are each present or not
ContactRecords ==
    UNION { [ d -> Agent1Values \cup Agent2Values ] :
              d \in SUBSET {"agent_1", "agent_2"} }

WellTyped(rec) ==
    /\ "agent_1" \in DOMAIN rec => rec["agent_1"] \in Agent1Values
    /\ "agent_2" \in DOMAIN rec => rec["agent_2"] \in Agent2Values

Records == { rec \in ContactRecords : WellTyped(rec) }

ArraysUpTo(n) == UNION { [ 1..k -> Records ] : k \in 0..n }

\* what the file contact_list holds: nothing (no such file), text that is
\* not JSON, or a JSON array of objects
Files(n) ==
    { [kind |-> "missing"], [kind |-> "malformed"] }
      \cup { [kind |-> "array", value |-> a] : a \in ArraysUpTo(n) }

Runs == {1, 2}

VARIABLES
    file,             \* content of the file contact_list (never written)
    runs,             \* the runs of the script started on that content
    pc,               \* pc[r]: the statement run r executes next
    contacts,         \* contacts[r]: loader.py:7
    metWithInfected,  \* metWithInfected[r]: loader.py:9, an ordered dict
    infectIdx,        \* position of the outer loop in infected (loader.py:11)
    contactIdx,       \* position of the inner loop in contacts (loader.py:12)
    error,            \* the exception that ended the run, or "none"
    stdout,           \* stdout[r]: the lines printed so far
    visits            \* history: the <<infectIdx, contactIdx>> pairs visited

vars == << file, runs, pc, contacts, metWithInfected, infectIdx, contactIdx,
           error, stdout, visits >>

\* ------------------------------------------------------ Python semantics
\* the exceptions of the three failures: FileNotFoundError (no input file),
\* JSONDecodeError (the file is not JSON), KeyError (a record has no such
\* field)
Min(a, b) == IF a < b THEN a ELSE b
Max(a, b) == IF a > b THEN a ELSE b

\* a slice bound of Python: negative bounds count from the end, and every
\* bound is clipped into 0..len
SliceBound(k, n) == IF k < 0 THEN Max(n + k, 0) ELSE Min(k, n)

\* s[lo:hi] of a Python list (0-based, hi excluded) on a 1-based sequence
PySlice(s, lo, hi) ==
    LET a == SliceBound(lo, Len(s))
        b == SliceBound(hi, Len(s))
    IN  IF b > a THEN [ k \in 1..(b - a) |-> s[a + k] ] ELSE << >>

\* a slice that drops the first element only: json.load(json_file)[1:]
TrimFirstOnly(parsed) == PySlice(parsed, 1, Len(parsed))

\* no slice at all: json.load(json_file)
TrimNone(parsed) == parsed

\* json.load(json_file)[1:-1]
Trim(parsed) == PySlice(parsed, 1, -1)

\* {key: [] for key in keys}: an insertion-ordered dict, one entry per key
DictComp(keys) == [ k \in 1..Len(keys) |-> [key |-> keys[k], val |-> << >>] ]

DictGet(d, key) == d[CHOOSE k \in 1..Len(d) : d[k].key = key].val

\* an append that keeps a value once, as a set would
DictAppendDedup(d, key, v) ==
    [ k \in 1..Len(d) |->
        IF d[k].key = key /\ \A x \in 1..Len(d[k].val) : d[k].val[x] # v
          THEN [ d[k] EXCEPT !.val = Append(@, v) ]
          ELSE d[k] ]

\* an append with key and value exchanged, on a dict that creates the
\* entries it misses
DictAppendSwapped(d, key, v) ==
    IF \E k \in 1..Len(d) : d[k].key = v
      THEN [ k \in 1..Len(d) |->
               IF d[k].key = v THEN [ d[k] EXCEPT !.val = Append(@, key) ]
                               ELSE d[k] ]
      ELSE Append(d, [key |-> v, val |-> << key >>])

\* d[key].append(v)
DictAppend(d, key, v) ==
    [ k \in 1..Len(d) |->
        IF d[k].key = key THEN [ d[k] EXCEPT !.val = Append(@, v) ] ELSE d[k] ]

RECURSIVE JoinComma(_)
JoinComma(parts) ==
    IF Len(parts) = 0 THEN << >>
    ELSE IF Len(parts) = 1 THEN parts[1]
    ELSE parts[1] \o << "," >> \o JoinComma(Tail(parts))

\* repr of a list of strings, as the tokens of the text
ReprList(l) ==
    << "[" >> \o JoinComma([ k \in 1..Len(l) |-> << l[k] >> ]) \o << "]" >>

\* repr of the dict, as the tokens of the line print writes
ReprDict(d) ==
    << "{" >>
      \o JoinComma([ k \in 1..Len(d) |->
                       << d[k].key, ":" >> \o ReprList(d[k].val) ])
      \o << "}" >>

\* ------------------------------------------------------------------ Init
InitRun(rs) ==
    /\ runs = rs
    /\ pc = [ r \in Runs |-> "open" ]
    /\ contacts = [ r \in Runs |-> << >> ]
    /\ metWithInfected = [ r \in Runs |-> << >> ]
    /\ infectIdx = [ r \in Runs |-> 0 ]
    /\ contactIdx = [ r \in Runs |-> 0 ]
    /\ error = [ r \in Runs |-> "none" ]
    /\ stdout = [ r \in Runs |-> << >> ]
    /\ visits = [ r \in Runs |-> << >> ]

Init ==
    /\ file \in Files(MaxLen)
    /\ InitRun({1})

\* --------------------------------------------------------------- actions
\* an exception handled by printing what was collected before the run ends
AbortPrinting(r, exc) ==
    /\ pc' = [ pc EXCEPT ![r] = "aborted" ]
    /\ error' = [ error EXCEPT ![r] = exc ]
    /\ stdout' = [ stdout EXCEPT ![r] = Append(@, ReprDict(metWithInfected[r])) ]

\* an exception nothing catches: the run ends, and nothing is printed
Abort(r, exc) ==
    /\ pc' = [ pc EXCEPT ![r] = "aborted" ]
    /\ error' = [ error EXCEPT ![r] = exc ]
    /\ UNCHANGED stdout

\* loader.py:5  with open('contact_list') as json_file:
Open(r) ==
    /\ r \in runs
    /\ pc[r] = "open"
    /\ IF file.kind = "missing"
         THEN Abort(r, "FileNotFoundError")
         ELSE /\ pc' = [ pc EXCEPT ![r] = "load" ]
              /\ UNCHANGED << error, stdout >>
    /\ UNCHANGED << file, runs, contacts, metWithInfected, infectIdx,
                    contactIdx, visits >>

\* loader.py:7  contacts = json.load(json_file)[1:-1]
Load(r) ==
    /\ r \in runs
    /\ pc[r] = "load"
    /\ IF file.kind = "malformed"
         THEN /\ Abort(r, "JSONDecodeError")
              /\ UNCHANGED contacts
         ELSE /\ contacts' = [ contacts EXCEPT ![r] = Trim(file.value) ]
              /\ pc' = [ pc EXCEPT ![r] = "init" ]
              /\ UNCHANGED << error, stdout >>
    /\ UNCHANGED << file, runs, metWithInfected, infectIdx, contactIdx,
                    visits >>

\* the two loops exchanged: for contact in contacts: for infect in infected
NextPosContactMajor(i, j, n) ==
    IF n = 0 THEN << 0, 0 >>
    ELSE IF j = 0 THEN << 1, 1 >>
    ELSE IF i < Len(infected) THEN << i + 1, j >>
    ELSE IF j < n THEN << 1, j + 1 >>
    ELSE << 0, 0 >>

\* loops that start over once both are exhausted, as under a retry
NextPosRestart(i, j, n) ==
    IF n = 0 THEN << 0, 0 >>
    ELSE IF j < n THEN << i, j + 1 >>
    ELSE IF i < Len(infected) THEN << i + 1, 1 >>
    ELSE << 1, 1 >>

\* where the two nested for loops stand after the visit at <<i, j>>, or at
\* their start (<<1, 0>>): the next pair to visit, or <<0, 0>> when both
\* loops are exhausted (n is the length of contacts)
NextPos(i, j, n) ==
    IF n = 0 THEN << 0, 0 >>
    ELSE IF j < n THEN << i, j + 1 >>
    ELSE IF i < Len(infected) THEN << i + 1, 1 >>
    ELSE << 0, 0 >>

Advance(r, i, j) ==
    LET pos == NextPos(i, j, Len(contacts[r]))
    IN  /\ infectIdx' = [ infectIdx EXCEPT ![r] = pos[1] ]
        /\ contactIdx' = [ contactIdx EXCEPT ![r] = pos[2] ]
        /\ pc' = [ pc EXCEPT ![r] = IF pos = << 0, 0 >> THEN "print"
                                                       ELSE "scan" ]

\* the dict built from infected held as a set, whose iteration order differs
\* from one run to the next
InitMappingUnordered(r) ==
    /\ r \in runs
    /\ pc[r] = "init"
    /\ \E keys \in { << infected[1], infected[2] >>,
                     << infected[2], infected[1] >> } :
          metWithInfected' = [ metWithInfected EXCEPT ![r] = DictComp(keys) ]
    /\ Advance(r, 1, 0)
    /\ UNCHANGED << file, runs, contacts, error, stdout, visits >>

\* loader.py:9  metWithInfected = {key: [] for key in infected}
\* and the entry into the loops of loader.py:11-12
InitMapping(r) ==
    /\ r \in runs
    /\ pc[r] = "init"
    /\ metWithInfected' = [ metWithInfected EXCEPT ![r] = DictComp(infected) ]
    /\ Advance(r, 1, 0)
    /\ UNCHANGED << file, runs, contacts, error, stdout, visits >>

\* the fields read with contact.get(...): a missing field is None
VisitOutcomeGet(contact, infect) ==
    IF "agent_1" \notin DOMAIN contact THEN "skip"
    ELSE IF contact["agent_1"] # infect THEN "skip"
    ELSE IF "agent_2" \notin DOMAIN contact THEN "skip"
    ELSE "append"

\* both fields read before the comparison
VisitOutcomeEager(contact, infect) ==
    IF "agent_1" \notin DOMAIN contact \/ "agent_2" \notin DOMAIN contact
      THEN "KeyError"
    ELSE IF contact["agent_1"] # infect THEN "skip"
    ELSE "append"

\* loader.py:13-14  what the body of the inner loop does with one contact:
\* contact['agent_1'] is read first, contact['agent_2'] only on a match
VisitOutcome(contact, infect) ==
    IF "agent_1" \notin DOMAIN contact THEN "KeyError"
    ELSE IF contact["agent_1"] # infect THEN "skip"
    ELSE IF "agent_2" \notin DOMAIN contact THEN "KeyError"
    ELSE "append"

\* loader.py:12-14  one iteration of the inner loop
Visit(r) ==
    /\ r \in runs
    /\ pc[r] = "scan"
    /\ LET infect == infected[infectIdx[r]]
           contact == contacts[r][contactIdx[r]]
           outcome == VisitOutcome(contact, infect)
       IN  /\ visits' = [ visits EXCEPT
                            ![r] = Append(@, << infectIdx[r], contactIdx[r] >>) ]
           /\ IF outcome = "KeyError"
                THEN /\ Abort(r, "KeyError")
                     /\ UNCHANGED << metWithInfected, infectIdx, contactIdx >>
                ELSE /\ metWithInfected' =
                          [ metWithInfected EXCEPT
                              ![r] = IF outcome = "append"
                                       THEN DictAppend(@, infect,
                                                       contact["agent_2"])
                                       ELSE @ ]
                     /\ Advance(r, infectIdx[r], contactIdx[r])
                     /\ UNCHANGED << error, stdout >>
    /\ UNCHANGED << file, runs, contacts >>

\* loader.py:16  print(metWithInfected)
PrintResult(r) ==
    /\ r \in runs
    /\ pc[r] = "print"
    /\ stdout' = [ stdout EXCEPT ![r] = Append(@, ReprDict(metWithInfected[r])) ]
    /\ pc' = [ pc EXCEPT ![r] = "done" ]
    /\ UNCHANGED << file, runs, contacts, metWithInfected, infectIdx,
                    contactIdx, error, visits >>

Next ==
    \E r \in Runs :
        \/ Open(r)
        \/ Load(r)
        \/ InitMapping(r)
        \/ Visit(r)
        \/ PrintResult(r)

Spec == Init /\ [][Next]_vars

\* one run under the scheduling of a sequential interpreter: the statement
\* the run has reached is executed
LiveSpec == Init /\ [][Next]_vars /\ WF_vars(Next)

\* two runs of the script on the same file content, interleaved freely
InitPair ==
    /\ file \in Files(MaxLenPair)
    /\ InitRun({1, 2})

PairSpec == InitPair /\ [][Next]_vars

\* ------------------------------------------------- notions of the claims
Final(r) == pc[r] \in {"done", "aborted"}

\* the mapping exists from loader.py:9 on
Initialized(r) ==
    \/ pc[r] \in {"scan", "print", "done"}
    \/ pc[r] = "aborted" /\ error[r] = "KeyError"

\* the parsed array without its first and its last element
Middle(a) ==
    IF Len(a) <= 2 THEN << >> ELSE [ k \in 1..(Len(a) - 2) |-> a[k + 1] ]

Lacks(rec, fld) == fld \notin DOMAIN rec

IsInfected(id) == \E k \in 1..Len(infected) : infected[k] = id

Matches(rec, id) == ~Lacks(rec, "agent_1") /\ rec["agent_1"] = id

\* the agent_2 values of the records of cs whose agent_1 is id, in order
ExpectedContacts(cs, id) ==
    LET m == SelectSeq(cs, LAMBDA rec : Matches(rec, id))
    IN  [ k \in 1..Len(m) |-> m[k]["agent_2"] ]

\* a record the scan cannot get past
Fatal(rec) ==
    \/ Lacks(rec, "agent_1")
    \/ IsInfected(rec["agent_1"]) /\ Lacks(rec, "agent_2")

HasFatal(cs) == \E k \in 1..Len(cs) : Fatal(cs[k])

\* every <<identifier, record>> pair, identifiers in list order and, for
\* each identifier, records from first to last
AllPairs(n) ==
    [ k \in 1..(Len(infected) * n) |-> << ((k - 1) \div n) + 1, ((k - 1) % n) + 1 >> ]

IsPrefix(s, t) == Len(s) <= Len(t) /\ \A k \in 1..Len(s) : s[k] = t[k]

Result(r, k) == DictGet(metWithInfected[r], infected[k])

\* ------------------------------------------------------------------- C1
\* C1: when a run completes, the result sequence of each infected identifier
\* is the sequence of agent_2 values of exactly the scanned records whose
\* agent_1 is that identifier, in the order of the Contact Sequence and with
\* duplicates kept; records matching neither identifier contribute nothing.
C1_OrderedSubSequence ==
    \A r \in runs :
        pc[r] = "done" =>
            \A k \in 1..Len(infected) :
                Result(r, k) = ExpectedContacts(contacts[r], infected[k])

\* a completed run whose second identifier met the same agent twice while
\* the first met nobody
C1_Witness ==
    /\ pc[1] = "done"
    /\ Result(1, 2) = << "X", "X" >>
    /\ Result(1, 1) = << >>

\* ------------------------------------------------------------------- C2
\* C2: from the initialization of the mapping to the end of the run its
\* keys are exactly the two infected identifiers, whatever was appended, and
\* with an empty Contact Sequence both are mapped to the empty sequence.
C2_KeysFixed ==
    \A r \in runs :
        Initialized(r) =>
            /\ Len(metWithInfected[r]) = Len(infected)
            /\ { metWithInfected[r][k].key : k \in 1..Len(metWithInfected[r]) }
                 = { infected[k] : k \in 1..Len(infected) }
            /\ contacts[r] = << >> =>
                 \A k \in 1..Len(infected) : Result(r, k) = << >>

\* a completed run in which both identifiers received a contact
C2_Witness ==
    /\ pc[1] = "done"
    /\ Result(1, 1) # << >>
    /\ Result(1, 2) # << >>

\* ------------------------------------------------------------------- C3
\* C3 as stated: a record of the input lacking agent_1 or agent_2, at any
\* position and whatever its other field, keeps the run from the output step.
C3_AnyMalformedAborts ==
    \A r \in runs :
        ( /\ file.kind = "array"
          /\ \E k \in 1..Len(file.value) :
                Lacks(file.value[k], "agent_1") \/ Lacks(file.value[k], "agent_2") )
        => pc[r] \notin {"print", "done"}

\* C3 amended: a record of the Contact Sequence (the array without its first
\* and last element) that lacks agent_1, or lacks agent_2 while its agent_1
\* is an infected identifier, keeps the run from the output step, and the run
\* ends with the KeyError.
C3_ScannedMalformedAborts ==
    \A r \in runs :
        (file.kind = "array" /\ HasFatal(Middle(file.value))) =>
            /\ pc[r] \notin {"print", "done"}
            /\ stdout[r] = << >>
            /\ Final(r) => (pc[r] = "aborted" /\ error[r] = "KeyError")

\* a run ended by a scanned record of an infected agent without agent_2
C3_Witness ==
    /\ pc[1] = "aborted"
    /\ error[1] = "KeyError"
    /\ \E k \in 1..Len(contacts[1]) :
          /\ ~Lacks(contacts[1][k], "agent_1")
          /\ Lacks(contacts[1][k], "agent_2")

\* ------------------------------------------------------------------- C4
\* C4: the mapping is written at most once and only after every identifier
\* has scanned every record; a run ended by an exception has written nothing.
C4_NoPartialOutput ==
    \A r \in runs :
        /\ Len(stdout[r]) <= 1
        /\ stdout[r] # << >> =>
              /\ pc[r] = "done"
              /\ visits[r] = AllPairs(Len(contacts[r]))
        /\ pc[r] = "aborted" => stdout[r] = << >>

\* a run ended during the scan of the second identifier, the sequence of the
\* first being complete and not empty
C4_Witness ==
    /\ pc[1] = "aborted"
    /\ error[1] = "KeyError"
    /\ visits[1][Len(visits[1])][1] = 2
    /\ Result(1, 1) # << >>
    /\ stdout[1] = << >>

\* ------------------------------------------------------------------- C5
\* C5: the Contact Sequence is the parsed array without its first and its
\* last element, in the original order (empty for arrays of 0, 1 or 2
\* elements); a completed run has scanned each of its records for each
\* identifier, and the first and the last element contribute nothing.
C5_TrimFirstAndLast ==
    \A r \in runs :
        (file.kind = "array" /\ pc[r] \notin {"open", "load"}) =>
            /\ contacts[r] = Middle(file.value)
            /\ Len(file.value) <= 2 => contacts[r] = << >>
            /\ pc[r] = "done" =>
                 \A k \in 1..Len(infected) :
                    /\ { v[2] : v \in { visits[r][x] : x \in 1..Len(visits[r]) } }
                         = 1..(Len(file.value) - 2)
                    /\ Result(r, k) = ExpectedContacts(Middle(file.value), infected[k])

\* a completed run on an array of four whose first and last records name
\* the first infected identifier, which ends with no contact
C5_Witness ==
    /\ pc[1] = "done"
    /\ file.kind = "array"
    /\ Len(file.value) = 4
    /\ Matches(file.value[1], infected[1]) /\ ~Lacks(file.value[1], "agent_2")
    /\ Matches(file.value[4], infected[1]) /\ ~Lacks(file.value[4], "agent_2")
    /\ Result(1, 1) = << >>
    /\ Result(1, 2) # << >>

\* ------------------------------------------------------------------- C6
ScenarioA ==
    << [agent_1 |-> infected[1], agent_2 |-> "X"],
       [agent_1 |-> infected[2], agent_2 |-> "Y"] >>

\* C6 as stated: on the array of exactly the two records of scenario A the
\* program prints the first identifier with [X] and the second with [Y].
C6_ScenarioAOutput ==
    \A r \in runs :
        (file = [kind |-> "array", value |-> ScenarioA] /\ pc[r] = "done") =>
            stdout[r] = << << "{", infected[1], ":", "[", "X", "]", ",",
                                   infected[2], ":", "[", "Y", "]", "}" >> >>

\* C6 amended: on the array of exactly the two records of scenario A both
\* are sliced off and the program prints both identifiers with []; with the
\* two records between a first and a last element it prints the first
\* identifier with [X] and the second with [Y].
C6_ScenarioATrimmed ==
    \A r \in runs :
        /\ file = [kind |-> "array", value |-> ScenarioA] =>
              /\ pc[r] # "aborted"
              /\ pc[r] = "done" =>
                    stdout[r] = << << "{", infected[1], ":", "[", "]", ",",
                                           infected[2], ":", "[", "]", "}" >> >>
        /\ ( /\ file.kind = "array"
             /\ Len(file.value) = 4
             /\ Middle(file.value) = ScenarioA ) =>
              /\ pc[r] # "aborted"
              /\ pc[r] = "done" =>
                    stdout[r] = << << "{", infected[1], ":", "[", "X", "]", ",",
                                           infected[2], ":", "[", "Y", "]", "}" >> >>

\* the run on the two-record array of scenario A has printed
C6_Witness ==
    /\ file = [kind |-> "array", value |-> ScenarioA]
    /\ pc[1] = "done"
    /\ Len(stdout[1]) = 1

PrintedKeys(line) == SelectSeq(line, IsInfected)

\* C8: the records are visited identifier by identifier in list order and,
\* for each identifier, from the first record to the last; once the second
\* identifier has a contact, no append to the first follows; and the printed
\* line lists the keys in list order.
C8_FixedOrder ==
    /\ [] \A r \in runs :
            /\ IsPrefix(visits[r], AllPairs(Len(contacts[r])))
            /\ Initialized(r) =>
                  [ k \in 1..Len(metWithInfected[r]) |-> metWithInfected[r][k].key ]
                     = infected
            /\ \A x \in 1..Len(stdout[r]) : PrintedKeys(stdout[r][x]) = infected
    /\ [][ \A r \in runs :
              (pc[r] = "scan" /\ Result(r, 2) # << >>) =>
                  metWithInfected'[r][1] = metWithInfected[r][1] ]_vars

\* a completed run in which each identifier received a contact, the record
\* of the second identifier standing before the record of the first
C8_Witness ==
    /\ pc[1] = "done"
    /\ Len(contacts[1]) = 2
    /\ Matches(contacts[1][1], infected[2])
    /\ Matches(contacts[1][2], infected[1])
    /\ Result(1, 1) # << >> /\ Result(1, 2) # << >>
    /\ Len(stdout[1]) = 1

\* ------------------------------------------------------------------- C9
NoRevisit(r) ==
    \A x \in 1..Len(visits[r]) : \A y \in 1..Len(visits[r]) :
        visits[r][x] = visits[r][y] => x = y

\* C9: every run ends, either having printed the mapping or aborted with an
\* exception, never both; it visits at most |infected| x |contacts| records
\* and no record twice for the same identifier.
C9_Terminates ==
    /\ <>(\A r \in runs : Final(r))
    /\ [] \A r \in runs :
            /\ Len(visits[r]) <= Len(infected) * Len(contacts[r])
            /\ NoRevisit(r)
            /\ pc[r] = "done" => (error[r] = "none" /\ Len(stdout[r]) = 1)
            /\ pc[r] = "aborted" => (error[r] # "none" /\ stdout[r] = << >>)
    /\ [][ \A r \in runs : Final(r) => (pc'[r] = pc[r] /\ stdout'[r] = stdout[r]) ]_vars

\* a completed run that made every visit the bound allows
C9_Witness ==
    /\ pc[1] = "done"
    /\ contacts[1] # << >>
    /\ Len(visits[1]) = Len(infected) * Len(contacts[1])

\* ------------------------------------------------------------------ C10
\* C10: on a parsed array a run ends with the KeyError exactly when the array
\* without its first and last element holds a record lacking agent_1, or a
\* record of an infected agent_1 lacking agent_2; otherwise it completes
\* and prints the mapping once.
C10_ExactAbort ==
    \A r \in runs :
        (file.kind = "array" /\ Final(r)) =>
            /\ (pc[r] = "aborted" /\ error[r] = "KeyError")
                 <=> HasFatal(Middle(file.value))
            /\ ~HasFatal(Middle(file.value)) =>
                 (pc[r] = "done" /\ Len(stdout[r]) = 1)

\* a completed run whose array starts with a record without agent_1 and
\* holds, in the scanned part, a record of no infected agent without agent_2
C10_Witness ==
    /\ pc[1] = "done"
    /\ Len(stdout[1]) = 1
    /\ file.kind = "array"
    /\ Len(file.value) >= 3
    /\ Lacks(file.value[1], "agent_1")
    /\ \E k \in 1..Len(contacts[1]) :
          /\ Lacks(contacts[1][k], "agent_2")
          /\ Matches(contacts[1][k], "SENTINEL")

====
